---- MODULE Spec2Model ----
(***************************************************************************)
(* Model of the website check service.                                     *)
(*                                                                         *)
(*   src/app/api/check/route.ts  POST: validate the body, normalise the    *)
(*                               url, one outbound GET, then the           *)
(*                               status-code, latency, SEO, security and   *)
(*                               performance checks and the Report.        *)
(*   src/app/page.tsx            Home: the form that posts the url and     *)
(*                               shows the Report.                         *)
(*                                                                         *)
(* JavaScript strings are TLA+ strings.  A text the code only measures     *)
(* (the title, a meta content attribute) is its length; a missing          *)
(* attribute is NoAttr.  The parsed document is the record of the answers  *)
(* the cheerio queries of the handler give.                                *)
(***************************************************************************)
EXTENDS Integers, Sequences, FiniteSets, TLC

VARIABLES
    pc,             \* POST: "idle", "fetching" (awaiting axios.get), "done"
    reqBody,        \* POST: the request body being served
    normalizedUrl,  \* POST: const normalizedUrl
    outbound,       \* POST: the urls of the outbound GETs issued, in order
    fetched,        \* POST: how the GET ended and what it brought
    response,       \* POST: the HTTP response returned to the caller
    url,            \* Home: useState('') url
    loading,        \* Home: useState(false) loading
    result,         \* Home: useState(null) result
    error,          \* Home: useState('') error
    inflight        \* Home: the axios.post calls not yet settled

serverVars == <<pc, reqBody, normalizedUrl, outbound, fetched, response>>
formVars == <<url, loading, result, error, inflight>>
vars == <<pc, reqBody, normalizedUrl, outbound, fetched, response,
          url, loading, result, error, inflight>>

(***************************************************************************)
(* Bounds of the explored inputs.                                          *)
(***************************************************************************)
MaxImages == 6
MaxH1 == 2
MaxInFlight == 2

(***************************************************************************)
(* Strings.                                                                *)
(***************************************************************************)
StartsWith(s, p) == Len(s) >= Len(p) /\ SubSeq(s, 1, Len(p)) = p

UpperLetters == "ABCDEFGHIJKLMNOPQRSTUVWXYZ"
LowerLetters == "abcdefghijklmnopqrstuvwxyz"

\* the lower-case letter of each upper-case letter
LowerOf ==
    [c \in {SubSeq(UpperLetters, i, i) : i \in 1..26} |->
        LET i == CHOOSE j \in 1..26 : SubSeq(UpperLetters, j, j) = c
        IN  SubSeq(LowerLetters, i, i)]

LowerChar(c) == IF c \in DOMAIN LowerOf THEN LowerOf[c] ELSE c

RECURSIVE LowerCased(_)
LowerCased(s) ==
    IF Len(s) = 0 THEN ""
    ELSE LowerChar(SubSeq(s, 1, 1)) \o LowerCased(SubSeq(s, 2, Len(s)))

Min(a, b) == IF a < b THEN a ELSE b
Max(a, b) == IF a > b THEN a ELSE b

(***************************************************************************)
(* Request bodies.  url is absent ("undefined"), a string or a number;    *)
(* a body that is not JSON makes request.json() reject.                    *)
(***************************************************************************)
NoUrl == [type |-> "undefined", value |-> ""]
Str(s) == [type |-> "string", value |-> s]
Num(s) == [type |-> "number", value |-> s]
JsonBody(u) == [json |-> TRUE, url |-> u]
InvalidBody == [json |-> FALSE, url |-> NoUrl]

\* variant: url === undefined
FalsyUndefinedOnly(u) == u.type = "undefined"

\* !url
Falsy(u) ==
    \/ u.type = "undefined"
    \/ u.type = "string" /\ u.value = ""
    \/ u.type = "number" /\ u.value = "0"

\* url.startsWith('http') ? url : `https://${url}`
NormalizeUrl(u) == IF StartsWith(u, "http") THEN u ELSE "https://" \o u

securityHeaders ==
    << <<"strict-transport-security", "Strict-Transport-Security">>,
       <<"x-frame-options", "X-Frame-Options">>,
       <<"x-content-type-options", "X-Content-Type-Options">>,
       <<"content-security-policy", "Content-Security-Policy">> >>

\* the header names of the table, each lower-cased once
LowerCasedNames ==
    [name \in {securityHeaders[i][k] : i \in 1..4, k \in 1..2} |-> LowerCased(name)]

\* String.prototype.toLowerCase
ToLowerCase(s) ==
    IF s \in DOMAIN LowerCasedNames THEN LowerCasedNames[s] ELSE LowerCased(s)

(***************************************************************************)
(* The response headers.  The server sends <<name, value>> pairs in any    *)
(* letter case; axios hands them over keyed by the lower-cased name.       *)
(***************************************************************************)
AxiosHeaders(wire) ==
    [k \in {ToLowerCase(wire[i][1]) : i \in DOMAIN wire} |->
        wire[CHOOSE i \in DOMAIN wire : ToLowerCase(wire[i][1]) = k][2]]

\* headers[key], as a truth value
HeaderTruthy(headers, key) == key \in DOMAIN headers /\ headers[key] # ""

(***************************************************************************)
(* The parsed document: what each query of the handler answers.            *)
(***************************************************************************)
NoAttr == -1

\* !attr, for the content attribute of a meta element
AttrFalsy(a) == a = NoAttr \/ a = 0

(***************************************************************************)
(* The checks.  Each takes the lists built so far and appends to them.     *)
(***************************************************************************)
Push(list, entry) == Append(list, entry)

\* variant: score += n
DeductAdds(score, n) == score + n

Deduct(score, n) == score - n

\* Check status code
StatusCodeCheck(acc, statusCode) ==
    IF statusCode >= 500
    THEN [acc EXCEPT !.issues =
              Push(@, "Server error (" \o ToString(statusCode) \o ")")]
    ELSE IF statusCode >= 400
    THEN [acc EXCEPT !.issues =
              Push(@, "Client error (" \o ToString(statusCode) \o ")")]
    ELSE IF statusCode >= 300
    THEN [acc EXCEPT !.issues =
              Push(@, "Redirect detected (" \o ToString(statusCode) \o ")")]
    ELSE acc

\* Check response time
ResponseTimeCheck(acc, responseTime) ==
    IF responseTime > 3000
    THEN [acc EXCEPT
            !.issues = Push(@, "Slow response time (>3 seconds)"),
            !.recommendations =
                Push(@, "Consider optimizing server performance or using a CDN")]
    ELSE IF responseTime > 1000
    THEN [acc EXCEPT !.recommendations =
              Push(@, "Response time could be improved (currently >1 second)")]
    ELSE acc

\* Check title
TitleCheck(acc, title) ==
    IF title = 0
    THEN [acc EXCEPT !.issues = Push(@, "Missing page title"),
                     !.seoScore = Deduct(@, 15)]
    ELSE IF title > 60
    THEN [acc EXCEPT
            !.recommendations =
                Push(@, "Page title is too long (should be under 60 characters)"),
            !.seoScore = Deduct(@, 5)]
    ELSE acc

\* Check meta description
MetaDescriptionCheck(acc, metaDescription) ==
    IF AttrFalsy(metaDescription)
    THEN [acc EXCEPT !.issues = Push(@, "Missing meta description"),
                     !.seoScore = Deduct(@, 15)]
    ELSE IF metaDescription > 160
    THEN [acc EXCEPT
            !.recommendations =
                Push(@, "Meta description is too long (should be under 160 characters)"),
            !.seoScore = Deduct(@, 5)]
    ELSE acc

\* Check headings
HeadingsCheck(acc, h1Count) ==
    IF h1Count = 0
    THEN [acc EXCEPT !.issues = Push(@, "No H1 heading found"),
                     !.seoScore = Deduct(@, 10)]
    ELSE IF h1Count > 1
    THEN [acc EXCEPT
            !.recommendations =
                Push(@, "Multiple H1 headings detected (should have only one)"),
            !.seoScore = Deduct(@, 5)]
    ELSE acc

\* variant: imagesWithoutAlt * 2, without the cap
ImageDeductionUncapped(imagesWithoutAlt) == imagesWithoutAlt * 2

\* Math.min(10, imagesWithoutAlt * 2)
ImageDeduction(imagesWithoutAlt) == Min(10, imagesWithoutAlt * 2)

\* Check images
ImagesCheck(acc, imagesWithoutAlt) ==
    IF imagesWithoutAlt > 0
    THEN [acc EXCEPT
            !.issues =
                Push(@, ToString(imagesWithoutAlt) \o " images missing alt text"),
            !.seoScore = Deduct(@, ImageDeduction(imagesWithoutAlt))]
    ELSE acc

\* Check viewport meta tag
ViewportCheck(acc, viewport) ==
    IF AttrFalsy(viewport)
    THEN [acc EXCEPT
            !.issues =
                Push(@, "Missing viewport meta tag for mobile responsiveness"),
            !.seoScore = Deduct(@, 10)]
    ELSE acc

\* SEO Analysis
SeoAnalysis(acc, doc) ==
    LET a0 == [acc EXCEPT !.seoScore = 100]
        a1 == TitleCheck(a0, doc.title)
        a2 == MetaDescriptionCheck(a1, doc.metaDescription)
        a3 == HeadingsCheck(a2, doc.h1Count)
        a4 == ImagesCheck(a3, doc.imagesWithoutAlt)
    IN  ViewportCheck(a4, doc.viewport)

\* Check HTTPS
HttpsCheck(acc, nUrl) ==
    IF ~StartsWith(nUrl, "https://")
    THEN [acc EXCEPT
            !.issues = Push(@, "Website is not using HTTPS"),
            !.securityScore = Deduct(@, 30),
            !.recommendations =
                Push(@, "Enable HTTPS to secure data transmission")]
    ELSE acc

\* variant: headers[headerKey] === undefined
HeaderMissingUndefinedOnly(headers, headerKey) == headerKey \notin DOMAIN headers

\* !headers[headerKey] && !headers[headerKey.toLowerCase()]
HeaderMissing(headers, headerKey) ==
    /\ ~HeaderTruthy(headers, headerKey)
    /\ ~HeaderTruthy(headers, ToLowerCase(headerKey))

\* one turn of the loop over Object.entries(securityHeaders)
HeaderCheck(acc, headers, entry) ==
    IF HeaderMissing(headers, entry[1])
    THEN [acc EXCEPT
            !.recommendations =
                Push(@, "Consider adding " \o entry[2] \o " header"),
            !.securityScore = Deduct(@, 10)]
    ELSE acc

RECURSIVE HeadersLoop(_, _, _)
HeadersLoop(acc, headers, i) ==
    IF i > Len(securityHeaders) THEN acc
    ELSE HeadersLoop(HeaderCheck(acc, headers, securityHeaders[i]), headers, i + 1)

\* Security Analysis
SecurityAnalysis(acc, nUrl, headers) ==
    LET a0 == [acc EXCEPT !.securityScore = 100]
        a1 == HttpsCheck(a0, nUrl)
    IN  HeadersLoop(a1, headers, 1)

\* Performance Analysis
PerformanceAnalysis(acc, doc) ==
    LET a0 == [acc EXCEPT !.performanceScore = 100]
        a1 == IF doc.inlineScripts > 5
              THEN [a0 EXCEPT
                      !.recommendations =
                          Push(@, "Consider reducing inline scripts and using external files"),
                      !.performanceScore = Deduct(@, 10)]
              ELSE a0
        a2 == IF doc.externalScripts > 15
              THEN [a1 EXCEPT
                      !.recommendations =
                          Push(@, "Consider reducing number of external scripts"),
                      !.performanceScore = Deduct(@, 10)]
              ELSE a1
        a3 == IF doc.externalStylesheets > 10
              THEN [a2 EXCEPT
                      !.recommendations =
                          Push(@, "Consider combining CSS files to reduce HTTP requests"),
                      !.performanceScore = Deduct(@, 10)]
              ELSE a2
    IN  IF doc.fourSpaces \/ doc.tripleNewline
        THEN [a3 EXCEPT
                !.recommendations =
                    Push(@, "Consider minifying HTML for better performance"),
                !.performanceScore = Deduct(@, 5)]
        ELSE a3

\* variant: issues.length >= 5
DetermineStatusAtFive(issues, recommendations, statusCode) ==
    IF Len(issues) >= 5 \/ statusCode >= 500 THEN "error"
    ELSE IF Len(issues) > 0 \/ Len(recommendations) > 3 THEN "warning"
    ELSE "success"

\* Determine overall status
DetermineStatus(issues, recommendations, statusCode) ==
    IF Len(issues) > 5 \/ statusCode >= 500 THEN "error"
    ELSE IF Len(issues) > 0 \/ Len(recommendations) > 3 THEN "warning"
    ELSE "success"

GreatJob == "Great job! No critical issues detected"

\* Add positive feedback
PositiveFeedback(issues, recommendations) ==
    IF Len(issues) = 0 THEN Push(recommendations, GreatJob) ELSE recommendations

\* Math.max(0, score)
Clamp(score) == Max(0, score)

EmptyAcc ==
    [issues |-> <<>>, recommendations |-> <<>>,
     seoScore |-> 0, securityScore |-> 0, performanceScore |-> 0]

\* the lists and scores after each block of checks, in the order of the code
AfterStatusCode(f) == StatusCodeCheck(EmptyAcc, f.statusCode)
AfterResponseTime(f) == ResponseTimeCheck(AfterStatusCode(f), f.responseTime)
AfterSeo(f) == SeoAnalysis(AfterResponseTime(f), f.doc)
AfterSecurity(nUrl, f) == SecurityAnalysis(AfterSeo(f), nUrl, AxiosHeaders(f.wire))
\* variant: the performance block runs before the security block
AfterPerformanceSwapped(nUrl, f) ==
    SecurityAnalysis(PerformanceAnalysis(AfterSeo(f), f.doc), nUrl, AxiosHeaders(f.wire))

AfterPerformance(nUrl, f) == PerformanceAnalysis(AfterSecurity(nUrl, f), f.doc)

\* variant: the positive feedback is added before status is derived
BuildResultFeedbackFirst(nUrl, f, acc) ==
    LET recommendations == PositiveFeedback(acc.issues, acc.recommendations)
        status == DetermineStatus(acc.issues, recommendations, f.statusCode)
    IN  [url |-> nUrl,
         status |-> status,
         statusCode |-> f.statusCode,
         responseTime |-> f.responseTime,
         issues |-> acc.issues,
         recommendations |-> recommendations,
         seoScore |-> Clamp(acc.seoScore),
         performanceScore |-> Clamp(acc.performanceScore),
         securityScore |-> Clamp(acc.securityScore),
         timestamp |-> f.responseTime]

\* status, the positive feedback, then const result: CheckResult
BuildResult(nUrl, f, acc) ==
    LET status == DetermineStatus(acc.issues, acc.recommendations, f.statusCode)
        recommendations == PositiveFeedback(acc.issues, acc.recommendations)
    IN  [url |-> nUrl,
         status |-> status,
         statusCode |-> f.statusCode,
         responseTime |-> f.responseTime,
         issues |-> acc.issues,
         recommendations |-> recommendations,
         seoScore |-> Clamp(acc.seoScore),
         performanceScore |-> Clamp(acc.performanceScore),
         securityScore |-> Clamp(acc.securityScore),
         timestamp |-> f.responseTime]

\* variant: the catch fills in the initial statusCode and responseTime
FetchFailureReportWithDefaults(nUrl, message, at) ==
    [url |-> nUrl,
     status |-> "error",
     statusCode |-> 0,
     responseTime |-> 0,
     issues |-> <<"Failed to fetch website: " \o message>>,
     recommendations |-> <<"Ensure the website is accessible and not blocking requests">>,
     timestamp |-> at]

\* the Report of the catch around axios.get
FetchFailureReport(nUrl, message, at) ==
    [url |-> nUrl,
     status |-> "error",
     issues |-> <<"Failed to fetch website: " \o message>>,
     recommendations |-> <<"Ensure the website is accessible and not blocking requests">>,
     timestamp |-> at]

Json(code, body) == [status |-> code, json |-> body]

NoResponse == [status |-> 0]
NotFetched == [outcome |-> "none"]

(***************************************************************************)
(* The inputs explored.  Request bodies, the ways the GET fails, and the   *)
(* snapshots a GET brings: status code, elapsed time, body and headers.    *)
(* Every combination of a coarse choice per check is explored, and around  *)
(* it every combination of the boundary values of one block at a time.     *)
(***************************************************************************)
Bodies ==
    { InvalidBody, JsonBody(NoUrl), JsonBody(Str("")), JsonBody(Num("0")),
      JsonBody(Num("42")),
      JsonBody(Str("example.com")), JsonBody(Str("https://example.com")),
      JsonBody(Str("http://example.com")), JsonBody(Str("httpbin.org")) }

Messages == { "timeout of 10000ms exceeded", "getaddrinfo ENOTFOUND example.com" }
FailTimes == { 20, 10000 }

Docs(titles, descriptions, h1s, images, viewports, pages) ==
    { [title |-> t, metaDescription |-> d, h1Count |-> h,
       imagesWithoutAlt |-> i, viewport |-> v,
       inlineScripts |-> p.inlineScripts,
       externalScripts |-> p.externalScripts,
       externalStylesheets |-> p.externalStylesheets,
       fourSpaces |-> p.fourSpaces, tripleNewline |-> p.tripleNewline] :
      t \in titles, d \in descriptions, h \in h1s, i \in images,
      v \in viewports, p \in pages }

Pages(inline, external, sheets, spaces, newlines) ==
    [inlineScripts : inline, externalScripts : external,
     externalStylesheets : sheets, fourSpaces : spaces, tripleNewline : newlines]

LeanPage == CHOOSE p \in Pages({0}, {0}, {0}, {FALSE}, {FALSE}) : TRUE
HeavyPage == CHOOSE p \in Pages({6}, {16}, {11}, {TRUE}, {TRUE}) : TRUE
IndentedPage == CHOOSE p \in Pages({5}, {15}, {10}, {TRUE}, {FALSE}) : TRUE

\* what the server may send for one security header
HeaderOptions(entry) ==
    { <<>> } \cup { << <<name, value>> >> :
                      name \in {entry[1], entry[2]}, value \in {"", "DENY"} }

Wires(o1, o2, o3, o4) ==
    { a \o b \o c \o d : a \in o1, b \in o2, c \in o3, d \in o4 }

AllWires ==
    Wires(HeaderOptions(securityHeaders[1]), HeaderOptions(securityHeaders[2]),
          HeaderOptions(securityHeaders[3]), HeaderOptions(securityHeaders[4]))

Sent(i) == << <<securityHeaders[i][2], "DENY">> >>
NoHeaders == <<>>
OnlyHsts == Sent(1)
AllHeaders == Sent(1) \o Sent(2) \o Sent(3) \o Sent(4)

TextSnapshots(codes, times, docs, wires) ==
    [statusCode : codes, responseTime : times, dataType : {"string"},
     doc : docs, wire : wires]

CleanDocs == Docs({30}, {100}, {1}, {0}, {20}, {LeanPage})

CrossSnapshots ==
    TextSnapshots({200, 301, 404, 500}, {500, 2000, 4000},
                  Docs({0, 30, 61}, {NoAttr, 100, 161}, 0..MaxH1,
                       {0, 1, MaxImages}, {NoAttr, 20},
                       {LeanPage, IndentedPage, HeavyPage}),
                  {NoHeaders, OnlyHsts, AllHeaders})

SeoSnapshots ==
    TextSnapshots({200}, {500},
                  Docs({0, 1, 60, 61}, {NoAttr, 0, 1, 160, 161}, 0..MaxH1,
                       0..MaxImages, {NoAttr, 0, 20}, {LeanPage}),
                  {AllHeaders})

SecuritySnapshots == TextSnapshots({200}, {500}, CleanDocs, AllWires)

EnvelopeSnapshots ==
    TextSnapshots({200, 299, 300, 399, 400, 499, 500},
                  {0, 1000, 1001, 3000, 3001},
                  Docs({30}, {100}, {1}, {0}, {20},
                       Pages({5, 6}, {15, 16}, {10, 11}, BOOLEAN, BOOLEAN)),
                  {AllHeaders})

\* response.data parsed by axios into an object (a JSON endpoint)
ObjectSnapshots ==
    [statusCode : {200}, responseTime : {500}, dataType : {"object"},
     doc : CleanDocs, wire : {AllHeaders}]

Snapshots ==
    CrossSnapshots \cup SeoSnapshots \cup SecuritySnapshots
        \cup EnvelopeSnapshots \cup ObjectSnapshots

(***************************************************************************)
(* POST.  The handler suspends once, at await axios.get.                   *)
(***************************************************************************)
\* request.json() up to the call of axios.get
Validate(body) ==
    /\ reqBody' = body
    /\ fetched' = NotFetched
    /\ IF ~body.json
       THEN /\ response' = Json(500, [error |-> "Unexpected token in JSON"])
            /\ pc' = "done"
            /\ UNCHANGED <<normalizedUrl, outbound>>
       ELSE IF Falsy(body.url)
       THEN /\ response' = Json(400, [error |-> "URL is required"])
            /\ pc' = "done"
            /\ UNCHANGED <<normalizedUrl, outbound>>
       ELSE IF body.url.type # "string"
       THEN /\ response' = Json(500, [error |-> "url.startsWith is not a function"])
            /\ pc' = "done"
            /\ UNCHANGED <<normalizedUrl, outbound>>
       ELSE /\ normalizedUrl' = NormalizeUrl(body.url.value)
            /\ outbound' = Append(outbound, NormalizeUrl(body.url.value))
            /\ pc' = "fetching"
            /\ UNCHANGED response
    /\ UNCHANGED formVars

\* the catch around axios.get returns the terminal Report
OnFetchError(message, elapsed) ==
    /\ fetched' = [outcome |-> "threw", message |-> message]
    /\ response' = Json(200, FetchFailureReport(normalizedUrl, message, elapsed))
    /\ pc' = "done"
    /\ UNCHANGED <<reqBody, normalizedUrl, outbound>>
    /\ UNCHANGED formVars

\* every check runs and the Report is returned; a body that is not text makes
\* htmlContent.includes throw into the outer catch
Analyze(f) ==
    /\ fetched' = [outcome |-> "responded", snapshot |-> f]
    /\ response' =
         IF f.dataType # "string"
         THEN Json(500, [error |-> "htmlContent.includes is not a function"])
         ELSE Json(200, BuildResult(normalizedUrl, f,
                                    AfterPerformance(normalizedUrl, f)))
    /\ pc' = "done"
    /\ UNCHANGED <<reqBody, normalizedUrl, outbound>>
    /\ UNCHANGED formVars

\* a request arrives
Receive ==
    /\ pc = "idle"
    /\ \E body \in Bodies : Validate(body)

\* axios.get throws
FetchRejects ==
    /\ pc = "fetching"
    /\ \E message \in Messages, elapsed \in FailTimes : OnFetchError(message, elapsed)

\* axios.get resolves
FetchResolves ==
    /\ pc = "fetching"
    /\ \E f \in Snapshots : Analyze(f)

\* the next invocation starts from fresh locals
NextRequest ==
    /\ pc = "done"
    /\ pc' = "idle"
    /\ reqBody' = InvalidBody
    /\ normalizedUrl' = ""
    /\ outbound' = <<>>
    /\ fetched' = NotFetched
    /\ response' = NoResponse
    /\ UNCHANGED formVars

(***************************************************************************)
(* Home.  The form: the url field, the button and the pending posts.       *)
(***************************************************************************)
FormTexts == { "", "example.com", "httpbin.org" }

\* what a post to /api/check may settle with: a Report, an error response
\* with or without an error field, or no response at all
Outcomes(u) ==
    { [ok |-> TRUE, data |-> [url |-> NormalizeUrl(u), status |-> st], message |-> ""] :
        st \in {"success", "warning", "error"} }
    \cup
    { [ok |-> FALSE, data |-> [url |-> "", status |-> ""], message |-> m] :
        m \in {"htmlContent.includes is not a function", ""} }

\* err.response?.data?.error || 'Failed to check website'
ErrorText(message) == IF message = "" THEN "Failed to check website" ELSE message

\* checkWebsite, up to await axios.post
checkWebsite ==
    IF url = ""
    THEN /\ error' = "Please enter a URL"
         /\ UNCHANGED <<url, loading, result, inflight>>
    ELSE /\ Len(inflight) < MaxInFlight
         /\ loading' = TRUE
         /\ error' = ""
         /\ result' = <<>>
         /\ inflight' = Append(inflight, url)
         /\ UNCHANGED url

\* onChange of the url field
Type ==
    /\ \E text \in FormTexts : url' = text
    /\ UNCHANGED <<loading, result, error, inflight>>
    /\ UNCHANGED serverVars

\* onClick of the button, which is disabled while loading
Click ==
    /\ ~loading
    /\ checkWebsite
    /\ UNCHANGED serverVars

\* onKeyPress of the url field with the Enter key
PressEnter ==
    /\ checkWebsite
    /\ UNCHANGED serverVars

\* checkWebsite, from the settling of axios.post through finally
Settle ==
    /\ \E i \in DOMAIN inflight :
        /\ inflight' = SubSeq(inflight, 1, i - 1) \o SubSeq(inflight, i + 1, Len(inflight))
        /\ \E o \in Outcomes(inflight[i]) :
             IF o.ok
             THEN result' = <<o.data>> /\ UNCHANGED error
             ELSE error' = ErrorText(o.message) /\ UNCHANGED result
    /\ loading' = FALSE
    /\ UNCHANGED url
    /\ UNCHANGED serverVars

ServerInit ==
    /\ pc = "idle"
    /\ reqBody = InvalidBody
    /\ normalizedUrl = ""
    /\ outbound = <<>>
    /\ fetched = NotFetched
    /\ response = NoResponse

FormInit ==
    /\ url = ""
    /\ loading = FALSE
    /\ result = <<>>
    /\ error = ""
    /\ inflight = <<>>

Init == ServerInit /\ FormInit

Next == Receive \/ FetchRejects \/ FetchResolves \/ NextRequest

Spec == Init /\ [][Next]_vars

FormNext == Type \/ Click \/ PressEnter \/ Settle

FormSpec == Init /\ [][FormNext]_vars

(***************************************************************************)
(* Properties.                                                             *)
(***************************************************************************)
EndsWith(s, e) == Len(s) >= Len(e) /\ SubSeq(s, Len(s) - Len(e) + 1, Len(s)) = e
IsPrefix(a, b) == Len(a) <= Len(b) /\ SubSeq(b, 1, Len(a)) = a
Count(list, entry) == Cardinality({i \in DOMAIN list : list[i] = entry})
Has(list, entry) == \E i \in DOMAIN list : list[i] = entry
Bit(b) == IF b THEN 1 ELSE 0

\* the handler has answered 200 with a Report
Returned == pc = "done" /\ response.status = 200
\* ... after axios.get resolved
Analysed == Returned /\ fetched.outcome = "responded"
\* ... after axios.get threw
Failed == Returned /\ fetched.outcome = "threw"

Report == response.json
Snapshot == fetched.snapshot

\* the status the rule of the spec gives for these counts
RuleStatus(nIssues, nRecommendations, statusCode) ==
    IF nIssues > 5 \/ statusCode >= 500 THEN "error"
    ELSE IF nIssues > 0 \/ nRecommendations > 3 THEN "warning"
    ELSE "success"

\* C1: the ORIGINAL statement.  In every returned Report, status is "error"
\* iff issues.length > 5 or statusCode >= 500, "warning" iff it is not error
\* and issues.length > 0 or recommendations.length > 3, and "success"
\* otherwise, all read from the returned Report (an absent statusCode is
\* not >= 500).
C1_StatusFromReturnedReport ==
    Returned =>
        LET r == Report
            isError == \/ Len(r.issues) > 5
                       \/ "statusCode" \in DOMAIN r /\ r.statusCode >= 500
            isWarning == /\ ~isError
                         /\ Len(r.issues) > 0 \/ Len(r.recommendations) > 3
        IN  /\ r.status = "error" <=> isError
            /\ r.status = "warning" <=> isWarning
            /\ r.status = "success" <=> ~isError /\ ~isWarning

\* C1, amended: in every Report returned after a successful fetch, status
\* follows the rule with issues and statusCode read from the Report and the
\* recommendations counted without the closing "Great job" entry, that is,
\* as they stood when status was derived; the Report of a failed fetch has
\* status "error".
C1_StatusFromChecks ==
    /\ Analysed =>
         LET r == Report
             n == Len(r.recommendations) - Count(r.recommendations, GreatJob)
         IN  r.status = RuleStatus(Len(r.issues), n, r.statusCode)
    /\ Failed => Report.status = "error"

\* C1 witness: a Report with five issues and no server error, which the rule
\* calls a warning
C1_Witness ==
    /\ Analysed
    /\ Len(Report.issues) = 5
    /\ Report.statusCode < 500
    /\ Report.status = "warning"

\* C2: after a successful fetch each of seoScore, performanceScore and
\* securityScore is an integer between 0 and 100.
C2_ScoresInRange ==
    Analysed =>
        /\ Report.seoScore \in 0..100
        /\ Report.performanceScore \in 0..100
        /\ Report.securityScore \in 0..100

\* C2 witness: every deduction of every block fires
C2_Witness ==
    /\ Analysed
    /\ Report.seoScore = 40
    /\ Report.securityScore = 30
    /\ Report.performanceScore = 65

\* C3: the statement.  For a non-empty string url that does not begin with
\* "http://" or "https://" the url fetched and the url of the Report are
\* "https://" followed by the input; otherwise the input is used unchanged.
C3_SchemePrefixNormalization ==
    (pc # "idle" /\ reqBody.json /\ reqBody.url.type = "string"
        /\ reqBody.url.value # "") =>
        LET u == reqBody.url.value
            expected == IF StartsWith(u, "http://") \/ StartsWith(u, "https://")
                        THEN u ELSE "https://" \o u
        IN  /\ outbound = <<expected>>
            /\ Returned => Report.url = expected

\* C4: when axios.get throws, the handler returns a Report with status
\* "error", one issue that starts with "Failed to fetch website: ", one
\* recommendation, and none of statusCode, responseTime and the three scores.
C4_FetchFailureReport ==
    (pc = "done" /\ fetched.outcome = "threw") =>
        /\ response.status = 200
        /\ DOMAIN Report = {"url", "status", "issues", "recommendations", "timestamp"}
        /\ Report.status = "error"
        /\ Len(Report.issues) = 1
        /\ StartsWith(Report.issues[1], "Failed to fetch website: ")
        /\ Report.issues[1] = "Failed to fetch website: " \o fetched.message
        /\ Len(Report.recommendations) = 1

\* C4 witness: a GET that timed out has been answered
C4_Witness ==
    /\ pc = "done"
    /\ fetched.outcome = "threw"
    /\ fetched.message = "timeout of 10000ms exceeded"
    /\ response.status = 200

\* C5: a body whose url is missing or empty is answered 400 with
\* { error: "URL is required" }, no Report, and no outbound GET.
C5_MissingUrl ==
    (pc # "idle" /\ reqBody.json
        /\ (reqBody.url.type = "undefined"
            \/ (reqBody.url.type = "string" /\ reqBody.url.value = ""))) =>
        /\ pc = "done"
        /\ response = Json(400, [error |-> "URL is required"])
        /\ outbound = <<>>

\* C5 witness: the empty url has been answered
C5_Witness ==
    /\ pc = "done"
    /\ reqBody = JsonBody(Str(""))
    /\ response.status = 400

\* the deductions of the SEO table for a document
SeoTable(doc) ==
    15 * Bit(doc.title = 0)
    + 5 * Bit(doc.title > 60)
    + 15 * Bit(doc.metaDescription \in {NoAttr, 0})
    + 5 * Bit(doc.metaDescription > 160)
    + 10 * Bit(doc.h1Count = 0)
    + 5 * Bit(doc.h1Count > 1)
    + (IF doc.imagesWithoutAlt > 0
       THEN (IF 2 * doc.imagesWithoutAlt < 10 THEN 2 * doc.imagesWithoutAlt ELSE 10)
       ELSE 0)
    + 10 * Bit(doc.viewport \in {NoAttr, 0})

\* C6: after a successful fetch seoScore is 100 minus the deductions of the
\* SEO table that fire; six images without alt deduct 10, and a document
\* whose only fault is a missing meta description scores 85.
C6_SeoScore ==
    Analysed =>
        LET doc == Snapshot.doc
        IN  /\ Report.seoScore = 100 - SeoTable(doc)
            /\ (doc.title \in 1..60 /\ doc.metaDescription = NoAttr
                 /\ doc.h1Count = 1 /\ doc.imagesWithoutAlt = 0
                 /\ doc.viewport > 0) => Report.seoScore = 85
            /\ (doc.title \in 1..60 /\ doc.metaDescription \in 1..160
                 /\ doc.h1Count = 1 /\ doc.imagesWithoutAlt >= 6
                 /\ doc.viewport > 0) => Report.seoScore = 90

\* C6 witness: six images without alt are the only fault
C6_Witness ==
    /\ Analysed
    /\ Snapshot.doc.imagesWithoutAlt = 6
    /\ Snapshot.doc.title = 60
    /\ Snapshot.doc.metaDescription = 160
    /\ Snapshot.doc.h1Count = 1
    /\ Snapshot.doc.viewport > 0
    /\ Report.seoScore = 90

\* the values the server sent for a header, whatever the case of its name
SentValues(wire, key) ==
    {wire[i][2] : i \in {j \in DOMAIN wire : ToLowerCase(wire[j][1]) = key}}

\* the security score and recommendations when `missing` is the set of the
\* header keys that count as missing
SecurityAsStated(missing) ==
    /\ Report.securityScore =
         100 - 30 * Bit(~StartsWith(Report.url, "https://"))
             - 10 * Cardinality({i \in DOMAIN securityHeaders : securityHeaders[i][1] \in missing})
    /\ \A i \in DOMAIN securityHeaders :
         Count(Report.recommendations,
               "Consider adding " \o securityHeaders[i][2] \o " header")
           = Bit(securityHeaders[i][1] \in missing)

\* C7: the ORIGINAL statement.  securityScore is 100, minus 30 without
\* https, minus 10 for each of the four headers absent from the response
\* headers (names compared case-insensitively); each absent header appends
\* its recommendation once and a present header appends none.
C7_AbsentHeaders ==
    Analysed =>
        SecurityAsStated({securityHeaders[i][1] : i \in
            {j \in DOMAIN securityHeaders :
                SentValues(Snapshot.wire, securityHeaders[j][1]) = {}}})

\* C7, amended: the same, where a header counts as missing when it is absent
\* from the response headers or present with an empty value.
C7_AbsentOrEmptyHeaders ==
    Analysed =>
        SecurityAsStated({securityHeaders[i][1] : i \in
            {j \in DOMAIN securityHeaders :
                SentValues(Snapshot.wire, securityHeaders[j][1]) \subseteq {""}}})

\* C7 witness: one header sent with its canonical name, one with its
\* lower-case name, one with an empty value and one not at all
C7_Witness ==
    /\ Analysed
    /\ Snapshot.wire = << <<"Strict-Transport-Security", "DENY">>,
                          <<"x-frame-options", "DENY">>,
                          <<"X-Content-Type-Options", "">> >>
    /\ Report.securityScore = 80

\* C8: "Great job" is among the recommendations iff issues is empty; it is
\* then the last one, it is added after status is derived, and a run with no
\* issue and three recommendations before it returns "success".
C8_PositiveFeedback ==
    /\ Returned => (Has(Report.recommendations, GreatJob) <=> Report.issues = <<>>)
    /\ (Analysed /\ Report.issues = <<>>) =>
         LET recs == Report.recommendations
         IN  /\ recs[Len(recs)] = GreatJob
             /\ Count(recs, GreatJob) = 1
             /\ Report.statusCode < 500 =>
                  (Report.status = "success" <=> Len(recs) - 1 <= 3)
             /\ Len(recs) = 4 => Report.status = "success"

\* C8 witness: no issue and three recommendations before the message
C8_Witness ==
    /\ Analysed
    /\ Report.issues = <<>>
    /\ Len(Report.recommendations) = 4
    /\ Report.recommendations[4] = GreatJob

\* the block of checks an entry of issues or recommendations comes from:
\* 1 status code and latency, 2 SEO, 3 security, 4 performance, 5 the
\* closing feedback
Block(entry) ==
    IF \/ StartsWith(entry, "Server error (")
       \/ StartsWith(entry, "Client error (")
       \/ StartsWith(entry, "Redirect detected (")
       \/ entry \in {"Slow response time (>3 seconds)",
                     "Consider optimizing server performance or using a CDN",
                     "Response time could be improved (currently >1 second)"}
    THEN 1
    ELSE IF \/ EndsWith(entry, " images missing alt text")
            \/ entry \in {"Missing page title",
                          "Page title is too long (should be under 60 characters)",
                          "Missing meta description",
                          "Meta description is too long (should be under 160 characters)",
                          "No H1 heading found",
                          "Multiple H1 headings detected (should have only one)",
                          "Missing viewport meta tag for mobile responsiveness"}
    THEN 2
    ELSE IF \/ StartsWith(entry, "Consider adding ")
            \/ entry \in {"Website is not using HTTPS",
                          "Enable HTTPS to secure data transmission"}
    THEN 3
    ELSE IF entry \in {"Consider reducing inline scripts and using external files",
                       "Consider reducing number of external scripts",
                       "Consider combining CSS files to reduce HTTP requests",
                       "Consider minifying HTML for better performance"}
    THEN 4
    ELSE IF entry = GreatJob THEN 5
    ELSE 0

InBlockOrder(list) ==
    /\ \A i \in DOMAIN list : Block(list[i]) # 0
    /\ \A i, j \in DOMAIN list : i < j => Block(list[i]) <= Block(list[j])

\* C9: after a successful fetch issues and recommendations are in the order
\* of the checks (status code and latency, SEO, security, performance), and
\* each block only appends to what the blocks before it left.
C9_CheckOrder ==
    Analysed =>
        LET f == Snapshot
            s1 == AfterStatusCode(f)
            s2 == AfterResponseTime(f)
            s3 == AfterSeo(f)
            s4 == AfterSecurity(Report.url, f)
            s5 == AfterPerformance(Report.url, f)
        IN  /\ InBlockOrder(Report.issues)
            /\ InBlockOrder(Report.recommendations)
            /\ IsPrefix(s1.issues, s2.issues) /\ IsPrefix(s2.issues, s3.issues)
            /\ IsPrefix(s3.issues, s4.issues) /\ IsPrefix(s4.issues, s5.issues)
            /\ IsPrefix(s1.recommendations, s2.recommendations)
            /\ IsPrefix(s2.recommendations, s3.recommendations)
            /\ IsPrefix(s3.recommendations, s4.recommendations)
            /\ IsPrefix(s4.recommendations, s5.recommendations)
            /\ Report.issues = s5.issues
            /\ IsPrefix(s5.recommendations, Report.recommendations)

\* C9 witness: every block has left a recommendation, and the three blocks
\* that raise issues have each left one
C9_Witness ==
    /\ Analysed
    /\ \A b \in 1..4 : \E i \in DOMAIN Report.recommendations :
                          Block(Report.recommendations[i]) = b
    /\ \A b \in 1..3 : \E i \in DOMAIN Report.issues : Block(Report.issues[i]) = b

\* C10: the statement.  At most one post to the check endpoint is
\* outstanding at a time, and loading is true exactly while one is.
C10_SingleRequest ==
    /\ Len(inflight) <= 1
    /\ loading <=> Len(inflight) > 0

====
